---- MODULE Spec2Model ----
(***************************************************************************)
(* Kubernetes bootstrap of the Ray autoscaler                              *)
(* (python/ray/autoscaler/_private/kubernetes/config.py).                  *)
(*                                                                         *)
(* bootstrap_kubernetes reconciles a namespace, a service account, a role, *)
(* a role binding and a list of services against the cluster, and          *)
(* fillout_resources_kubernetes fills the CPU/GPU amounts of every node    *)
(* type from its first container.  The cluster API (core_api(),            *)
(* auth_api()) is the environment: every call may raise ApiException.      *)
(***************************************************************************)
EXTENDS Naturals, Integers, Sequences, FiniteSets, Bags, TLC

VARIABLES
    provider,     \* config["provider"], mutated in place by the _configure_* functions
    cluster,      \* the objects held by the cluster, one bag per kind
    pc,           \* the function bootstrap_kubernetes is about to run, or "returned" / "raised"
    namespace,    \* the local variable `namespace` of bootstrap_kubernetes
    idx,          \* position of the `for service in services` loop (1-based)
    calls,        \* collaborator calls issued by the current run, in order
    failed,       \* positions in `calls` of the calls that raised ApiException
    logs,         \* logger lines emitted by the current run, in order
    error,        \* the exception that ended the current run, or NoExc
    retval,       \* what bootstrap_kubernetes returned: "none", "config" or "ValueError"
    run,          \* number of the current invocation of bootstrap_kubernetes
    cluster0,     \* the cluster as it was when the current run was invoked
    provider0,    \* config["provider"] as it was when the current run was invoked
    outcomes,     \* how each earlier run ended: "config", "ValueError" or "raised"
    config,       \* the top-level config dict without its "provider" entry
    fpc,          \* position of fillout_resources_kubernetes: "call", "returned", "raised"
    ferror,       \* the exception fillout_resources_kubernetes raised, or NoExc
    config0       \* `config` as it was when fillout_resources_kubernetes was invoked

vars == <<provider, cluster, pc, namespace, idx, calls, failed, logs, error, retval,
          run, cluster0, provider0, outcomes, config, fpc, ferror, config0>>

bvars == <<provider, cluster, pc, namespace, idx, calls, failed, logs, error, retval,
           run, cluster0, provider0, outcomes>>

fvars == <<config, fpc, ferror, config0>>

-----------------------------------------------------------------------------
(* Bounds of the model *)

MaxServices == 2    \* longest declared services list
MaxSubjects == 2    \* longest subjects list of the role binding
MaxCopies == 2      \* copies of one identity the initial cluster may hold
MaxRuns == 2        \* invocations of bootstrap_kubernetes in one behaviour

-----------------------------------------------------------------------------
(* Values *)

Absent == "<absent>"                  \* marks an omitted key while building inputs
WorkNs == "ray"                       \* provider.namespace
OtherNs == "other"                    \* a namespace that conflicts with it
NsOpt == {Absent, WorkNs, OtherNs}    \* a nested object's metadata.namespace
Payloads == {"v1", "v2"}              \* kind-specific payload of an object
Desired == "v1"                       \* payload of every declared object
RbacName == "autoscaler"              \* metadata.name of the declared RBAC objects
SubjectName == "autoscaler"           \* name of every role-binding subject
SvcName(i) == "svc-" \o ToString(i)   \* metadata.name of the i-th declared service

Kinds == {"namespace", "service_account", "role", "role_binding", "service"}

NoExc == [type |-> "none", arg |-> ""]
Exc(t, a) == [type |-> t, arg |-> a]

\* A dict with `key` unless the value is omitted.
Opt(key, val) == IF val = Absent THEN <<>> ELSE key :> val

Meta(name, ns) == [name |-> name] @@ Opt("namespace", ns)

-----------------------------------------------------------------------------
(* Logger lines *)

using_existing_msg(resource_type, name) ==
    [msg |-> "using existing", type |-> resource_type, name |-> name]

updating_existing_msg(resource_type, name) ==
    [msg |-> "updating existing", type |-> resource_type, name |-> name]

not_found_msg(resource_type, name) ==
    [msg |-> "not found, attempting to create it", type |-> resource_type, name |-> name]

not_checking_msg(resource_type, name) ==
    [msg |-> "not checking if exists", type |-> resource_type, name |-> name]

created_msg(resource_type, name) ==
    [msg |-> "successfully created", type |-> resource_type, name |-> name]

not_provided_msg(resource_type) ==
    [msg |-> "no config provided, must already exist", type |-> resource_type, name |-> ""]

-----------------------------------------------------------------------------
(* The cluster API.  A call is recorded in `calls` when it is issued,      *)
(* whether it succeeds or raises ApiException.                             *)

ListCall(kind, ns, name) == [op |-> "list", kind |-> kind, namespace |-> ns, name |-> name]

CreateCall(kind, ns, body) ==
    [op |-> "create", kind |-> kind, namespace |-> ns, name |-> body.metadata.name,
     body |-> body]

PatchCall(kind, ns, name, body) ==
    [op |-> "patch", kind |-> kind, namespace |-> ns, name |-> name, body |-> body]

\* The objects a list call with field_selector metadata.name=<name> selects.
Selected(cl, kind, ns, name) ==
    {o \in BagToSet(cl[kind]) :
        /\ o.metadata.name = name
        /\ kind = "namespace" \/ o.metadata.namespace = ns}

\* The .items of the list response, as a bag.
Items(cl, kind, ns, name) ==
    [o \in Selected(cl, kind, ns, name) |-> cl[kind][o]]

\* Faulty variant: the answer is read as empty whatever the cluster holds.
Len_nothing(cl, kind, ns, name) == BagCardinality(EmptyBag)

\* len(items)
Len_items(cl, kind, ns, name) == BagCardinality(Items(cl, kind, ns, name))

\* items[0]
First_item(cl, kind, ns, name) == CHOOSE o \in Selected(cl, kind, ns, name) : TRUE

\* The API server accepts a create only in a namespace that exists; otherwise
\* the call raises ApiException (404).
Accepts(cl, kind, ns) == kind = "namespace" \/ Len_items(cl, "namespace", "", ns) >= 1

\* create_*: the cluster holds one more object.
Created(cl, kind, body) == [cl EXCEPT ![kind] = @ (+) SetToBag({body})]

\* patch_namespaced_service: the object of that identity takes the body's fields.
Patched(cl, kind, ns, name, body) ==
    LET old == Selected(cl, kind, ns, name)
        kept == [o \in BagToSet(cl[kind]) \ old |-> cl[kind][o]]
    IN  [cl EXCEPT ![kind] = kept (+) SetToBag({body})]

-----------------------------------------------------------------------------
(* Steps of a function on st = [provider, cluster, calls, failed, logs]; a  *)
(* result                                                                  *)
(* adds exc (the exception raised, or NoExc) and ret (the function         *)
(* executed a `return` statement).                                         *)

Log(st, line) == [st EXCEPT !.logs = Append(@, line)]

Call(st, c) == [st EXCEPT !.calls = Append(@, c)]

\* The call issued last raises ApiException instead of answering.
Fail(st) == [st EXCEPT !.failed = @ \cup {Len(st.calls)}]

Return(st) == st @@ [exc |-> NoExc, ret |-> TRUE]

FallThrough(st) == st @@ [exc |-> NoExc, ret |-> FALSE]

Raise(st, e) == st @@ [exc |-> e, ret |-> FALSE]

\* Faulty variant: an omitted kind is treated as a missing mandatory field.
skip_raises(st, field) == [st EXCEPT !.logs = Append(@, not_provided_msg(field))]
                              @@ [exc |-> [type |-> "KeyError", arg |-> field], ret |-> FALSE]

\* if field not in provider_config: logger.info(not_provided_msg(field)); return
skip_not_provided(st, field) == Return(Log(st, not_provided_msg(field)))

InvalidNamespaceError(field_name, ns) == Exc("InvalidNamespaceError", field_name)

ApiException == Exc("ApiException", "")

AssertionError == Exc("AssertionError", "")

-----------------------------------------------------------------------------
(* The two tests every existence query is followed by. *)

\* Faulty variant: a single match is not taken as the object being present.
several_found(n) == n > 1

\* if len(items) > 0
some_found(n) == n > 0

\* Faulty variant: the assert statement is compiled away.
assert_skipped(n) == TRUE

\* assert len(items) == 1
exactly_one(n) == n = 1

-----------------------------------------------------------------------------
(* _configure_namespace *)

\* Faulty variant: list_namespace is not wrapped in try/except ApiException.
namespace_exists_or_raise(st, namespace_field, ns, list_ok, create_ok) ==
    LET s1 == Call(st, ListCall("namespace", "", ns))
        n  == Len_items(st.cluster, "namespace", "", ns)
        namespace_config == [metadata |-> [name |-> ns]]
        s2 == Call(Log(s1, not_found_msg(namespace_field, ns)),
                   CreateCall("namespace", "", namespace_config))
        s3 == [s2 EXCEPT !.cluster = Created(@, "namespace", namespace_config)]
    IN  IF ~list_ok
        THEN Raise(Fail(s1), ApiException)
        ELSE IF some_found(n)
        THEN IF ~exactly_one(n)
             THEN Raise(s1, AssertionError)
             ELSE Return(Log(s1, using_existing_msg(namespace_field, ns)))
        ELSE IF ~create_ok
        THEN Raise(Fail(s2), ApiException)
        ELSE Return(Log(s3, created_msg(namespace_field, ns)))

\* _configure_namespace from the existence query on: ns is
\* provider_config[namespace_field].
namespace_exists_or_create(st, namespace_field, ns, list_ok, create_ok) ==
    LET s1 == Call(st, ListCall("namespace", "", ns))
        n  == Len_items(st.cluster, "namespace", "", ns)
        namespace_config == [metadata |-> [name |-> ns]]
        s2 == Call(Log(s1, not_found_msg(namespace_field, ns)),
                   CreateCall("namespace", "", namespace_config))
        s3 == [s2 EXCEPT !.cluster = Created(@, "namespace", namespace_config)]
    IN  IF ~list_ok
        THEN Return(Log(Fail(s1), not_checking_msg(namespace_field, ns)))
        ELSE IF some_found(n)
        THEN IF ~exactly_one(n)
             THEN Raise(s1, AssertionError)
             ELSE Return(Log(s1, using_existing_msg(namespace_field, ns)))
        ELSE IF ~create_ok
        THEN Raise(Fail(s2), ApiException)
        ELSE Return(Log(s3, created_msg(namespace_field, ns)))

\* Faulty variant: the field is read with .get and tested only after the
\* existence query was issued.
_configure_namespace_late_check(st, list_ok, create_ok) ==
    LET namespace_field == "namespace" IN
    IF namespace_field \notin DOMAIN st.provider
    THEN Raise(Call(st, ListCall("namespace", "", "None")),
               Exc("ValueError", "Must specify namespace in Kubernetes config."))
    ELSE namespace_exists_or_create(st, namespace_field, st.provider[namespace_field],
                                    list_ok, create_ok)

_configure_namespace(st, list_ok, create_ok) ==
    LET namespace_field == "namespace" IN
    IF namespace_field \notin DOMAIN st.provider
    THEN Raise(st, Exc("ValueError", "Must specify namespace in Kubernetes config."))
    ELSE namespace_exists_or_create(st, namespace_field, st.provider[namespace_field],
                                    list_ok, create_ok)

-----------------------------------------------------------------------------
(* The namespace check every nested object goes through:                   *)
(*     if "namespace" not in m: m["namespace"] = namespace                 *)
(*     elif m["namespace"] != namespace: raise InvalidNamespaceError       *)

namespace_conflict(m, ns) == "namespace" \in DOMAIN m /\ m.namespace # ns

fill_namespace(m, ns) ==
    IF "namespace" \notin DOMAIN m THEN m @@ ("namespace" :> ns) ELSE m

\* Faulty variant: an existing object that differs from the configured one is
\* patched, as a service is.
query_or_patch(st, kind, field, ns, body, list_ok, create_ok) ==
    LET name == body.metadata.name
        s1 == Call(st, ListCall(kind, ns, name))
        n  == Len_items(st.cluster, kind, ns, name)
        s2 == Call(Log(s1, not_found_msg(field, name)), CreateCall(kind, ns, body))
        s3 == [s2 EXCEPT !.cluster = Created(@, kind, body)]
        s4 == Call(Log(s1, updating_existing_msg(field, name)),
                   PatchCall(kind, ns, name, body))
    IN  IF ~list_ok
        THEN Raise(Fail(s1), ApiException)
        ELSE IF some_found(n)
        THEN IF ~exactly_one(n)
             THEN Raise(s1, AssertionError)
             ELSE IF First_item(st.cluster, kind, ns, name) = body
             THEN Return(Log(s1, using_existing_msg(field, name)))
             ELSE FallThrough([s4 EXCEPT !.cluster = Patched(@, kind, ns, name, body)])
        ELSE IF ~create_ok \/ ~Accepts(st.cluster, kind, ns)
        THEN Raise(Fail(s2), ApiException)
        ELSE FallThrough(Log(s3, created_msg(field, name)))

\* The existence query and the create that follows it, the same in
\* _configure_autoscaler_service_account, _configure_autoscaler_role and
\* _configure_autoscaler_role_binding.
query_or_create(st, kind, field, ns, body, list_ok, create_ok) ==
    LET name == body.metadata.name
        s1 == Call(st, ListCall(kind, ns, name))
        n  == Len_items(st.cluster, kind, ns, name)
        s2 == Call(Log(s1, not_found_msg(field, name)), CreateCall(kind, ns, body))
        s3 == [s2 EXCEPT !.cluster = Created(@, kind, body)]
    IN  IF ~list_ok
        THEN Raise(Fail(s1), ApiException)
        ELSE IF some_found(n)
        THEN IF ~exactly_one(n)
             THEN Raise(s1, AssertionError)
             ELSE Return(Log(s1, using_existing_msg(field, name)))
        ELSE IF ~create_ok \/ ~Accepts(st.cluster, kind, ns)
        THEN Raise(Fail(s2), ApiException)
        ELSE FallThrough(Log(s3, created_msg(field, name)))

_configure_autoscaler_service_account(ns, st, list_ok, create_ok) ==
    LET account_field == "autoscaler_service_account" IN
    IF account_field \notin DOMAIN st.provider
    THEN skip_not_provided(st, account_field)
    ELSE
    LET account == st.provider[account_field]
        filled == [account EXCEPT !.metadata = fill_namespace(@, ns)]
        s1 == [st EXCEPT !.provider[account_field] = filled]
    IN  IF namespace_conflict(account.metadata, ns)
        THEN Raise(st, InvalidNamespaceError(account_field, ns))
        ELSE query_or_create(s1, "service_account", account_field, ns, filled,
                             list_ok, create_ok)

_configure_autoscaler_role(ns, st, list_ok, create_ok) ==
    LET role_field == "autoscaler_role" IN
    IF role_field \notin DOMAIN st.provider
    THEN skip_not_provided(st, role_field)
    ELSE
    LET role == st.provider[role_field]
        filled == [role EXCEPT !.metadata = fill_namespace(@, ns)]
        s1 == [st EXCEPT !.provider[role_field] = filled]
    IN  IF namespace_conflict(role.metadata, ns)
        THEN Raise(st, InvalidNamespaceError(role_field, ns))
        ELSE query_or_create(s1, "role", role_field, ns, filled, list_ok, create_ok)

\* for subject in binding["subjects"]: the subjects as the loop leaves them, and
\* the position of the subject that raised (0: none).  The subjects before the
\* one that raises have been filled in place.
RECURSIVE fill_subjects(_, _, _)
fill_subjects(subjects, i, ns) ==
    IF i > Len(subjects)
    THEN [subjects |-> subjects, bad |-> 0]
    ELSE IF namespace_conflict(subjects[i], ns)
    THEN [subjects |-> subjects, bad |-> i]
    ELSE fill_subjects([subjects EXCEPT ![i] = fill_namespace(@, ns)], i + 1, ns)

_configure_autoscaler_role_binding(ns, st, list_ok, create_ok) ==
    LET binding_field == "autoscaler_role_binding" IN
    IF binding_field \notin DOMAIN st.provider
    THEN skip_not_provided(st, binding_field)
    ELSE
    LET binding == st.provider[binding_field]
        b1 == [binding EXCEPT !.metadata = fill_namespace(@, ns)]
        fs == fill_subjects(b1.subjects, 1, ns)
        b2 == [b1 EXCEPT !.subjects = fs.subjects]
        s2 == [st EXCEPT !.provider[binding_field] = b2]
    IN  IF namespace_conflict(binding.metadata, ns)
        THEN Raise(st, InvalidNamespaceError(binding_field, ns))
        ELSE IF fs.bad # 0
        THEN Raise(s2, InvalidNamespaceError(
                 binding_field \o " subject '" \o b1.subjects[fs.bad].name \o "'", ns))
        ELSE query_or_create(s2, "role_binding", binding_field, ns, b2,
                             list_ok, create_ok)

-----------------------------------------------------------------------------
(* _configure_services: one pass of `for service in services` *)

\* Faulty variant: the comparison never finds the two equal.
service_never_equal(service, existing_service) == FALSE

\* service == existing_service
service_equal(service, existing_service) == service = existing_service

_configure_services(ns, st, i, list_ok, write_ok) ==
    LET service_field == "services"
        service == st.provider[service_field][i]
        filled == [service EXCEPT !.metadata = fill_namespace(@, ns)]
        s1 == [st EXCEPT !.provider[service_field][i] = filled]
        name == filled.metadata.name
        s2 == Call(s1, ListCall("service", ns, name))
        n  == Len_items(st.cluster, "service", ns, name)
        existing_service == First_item(st.cluster, "service", ns, name)
        s3 == Call(Log(s2, updating_existing_msg("service", name)),
                   PatchCall("service", ns, name, filled))
        s4 == Call(Log(s2, not_found_msg("service", name)),
                   CreateCall("service", ns, filled))
        s5 == [s4 EXCEPT !.cluster = Created(@, "service", filled)]
    IN  IF namespace_conflict(service.metadata, ns)
        THEN Raise(st, InvalidNamespaceError(service_field, ns))
        ELSE IF ~list_ok
        THEN Raise(Fail(s2), ApiException)
        ELSE IF some_found(n)
        THEN IF ~exactly_one(n)
             THEN Raise(s2, AssertionError)
             ELSE IF service_equal(filled, existing_service)
             THEN Return(Log(s2, using_existing_msg("service", name)))
             ELSE IF ~write_ok
             THEN Raise(Fail(s3), ApiException)
             ELSE FallThrough([s3 EXCEPT !.cluster = Patched(@, "service", ns, name, filled)])
        ELSE IF ~write_ok \/ ~Accepts(st.cluster, "service", ns)
        THEN Raise(Fail(s4), ApiException)
        ELSE FallThrough(Log(s5, created_msg("service", name)))

-----------------------------------------------------------------------------
(* Inputs: provider configurations and cluster states within the bounds.   *)

EmptyDict == [k \in {} |-> k]

\* A declared object of an RBAC kind or a service.
Object(name, ns) == [metadata |-> Meta(name, ns), spec |-> Desired]

Subject(ns) == [name |-> SubjectName] @@ Opt("namespace", ns)

SubjectLists == UNION {[1..n -> {Subject(ns) : ns \in NsOpt}] : n \in 0..MaxSubjects}

Binding(ns, subjects) == Object(RbacName, ns) @@ [subjects |-> subjects]

ServiceLists ==
    UNION {{[i \in 1..n |-> Object(SvcName(i), f[i])] : f \in [1..n -> NsOpt]} :
           n \in 0..MaxServices}

\* The ways each optional entry of the provider configuration may be given.
AccountEntries ==
    {EmptyDict} \cup {"autoscaler_service_account" :> Object(RbacName, ns) : ns \in NsOpt}

RoleEntries ==
    {EmptyDict} \cup {"autoscaler_role" :> Object(RbacName, ns) : ns \in NsOpt}

BindingEntries ==
    {EmptyDict} \cup {"autoscaler_role_binding" :> Binding(ns, sl) :
                         ns \in NsOpt, sl \in SubjectLists}

ServicesEntries == {EmptyDict} \cup {"services" :> sl : sl \in ServiceLists}

\* Every optional entry omitted, or every one declared without a namespace.
PlainEntries(declared) ==
    IF declared
    THEN [account |-> "autoscaler_service_account" :> Object(RbacName, Absent),
          role |-> "autoscaler_role" :> Object(RbacName, Absent),
          binding |-> "autoscaler_role_binding" :> Binding(Absent, <<Subject(Absent)>>),
          services |-> "services" :> <<Object(SvcName(1), Absent)>>]
    ELSE [account |-> EmptyDict, role |-> EmptyDict, binding |-> EmptyDict,
          services |-> EmptyDict]

Provider(uip, ns, e) ==
    [use_internal_ips |-> uip] @@ Opt("namespace", ns)
        @@ e.account @@ e.role @@ e.binding @@ e.services

\* The provider configurations in which the entries of one kind vary freely
\* and the other optional entries are plain.
ProviderConfigs(focus, declared) ==
    LET e == PlainEntries(declared) IN
    CASE focus = "namespace" ->
           {Provider(uip, ns, e) : uip \in BOOLEAN, ns \in {Absent, WorkNs}}
      [] focus = "service_account" ->
           {Provider(TRUE, WorkNs, [e EXCEPT !.account = a]) : a \in AccountEntries}
      [] focus = "role" ->
           {Provider(TRUE, WorkNs, [e EXCEPT !.role = r]) : r \in RoleEntries}
      [] focus = "role_binding" ->
           {Provider(TRUE, WorkNs, [e EXCEPT !.binding = b]) : b \in BindingEntries}
      [] focus = "service" ->
           {Provider(TRUE, WorkNs, [e EXCEPT !.services = sv]) : sv \in ServicesEntries}

\* An object the cluster holds.
Existing(kind, name, ns, payload) ==
    IF kind = "namespace" THEN [metadata |-> [name |-> name]]
    ELSE IF kind = "role_binding"
    THEN [metadata |-> [name |-> name, namespace |-> ns], spec |-> payload,
          subjects |-> <<[name |-> SubjectName, namespace |-> ns]>>]
    ELSE [metadata |-> [name |-> name, namespace |-> ns], spec |-> payload]

\* `copies` copies of each object of `objs`.
Copies(objs, copies) == [o \in objs |-> copies]

\* Objects of another namespace, which no call of a run addresses.
Background(kind) ==
    IF kind = "namespace" THEN SetToBag({Existing(kind, OtherNs, "", Desired)})
    ELSE SetToBag({Existing(kind, IF kind = "service" THEN SvcName(1) ELSE RbacName,
                            OtherNs, "v2")})

\* What the cluster may hold of one kind in the working namespace: for the
\* kind in focus any choice of payloads, for the others nothing or the
\* declared objects.  The working namespace itself may always be missing.
Holdings(kind, focus, populated) ==
    IF kind = "namespace"
    THEN {{}, {Existing(kind, WorkNs, "", Desired)}}
    ELSE IF kind = "service"
    THEN IF kind = focus
         THEN UNION {{ {Existing(kind, SvcName(i), WorkNs, f[i]) : i \in S} :
                        f \in [S -> Payloads]} : S \in SUBSET (1..MaxServices)}
         ELSE IF populated THEN {{Existing(kind, SvcName(1), WorkNs, Desired)}} ELSE {{}}
    ELSE IF kind = focus
         THEN {{}} \cup {{Existing(kind, RbacName, WorkNs, p)} : p \in Payloads}
         ELSE IF populated THEN {{Existing(kind, RbacName, WorkNs, Desired)}} ELSE {{}}

\* A namespace that does not exist holds nothing.
Within(n, holdings) == IF n = {} THEN {{}} ELSE holdings

Clusters(focus, populated, copies) ==
    UNION {
      {[namespace |-> Copies(n, copies) (+) Background("namespace"),
        service_account |-> Copies(a, copies) (+) Background("service_account"),
        role |-> Copies(r, copies) (+) Background("role"),
        role_binding |-> Copies(b, copies) (+) Background("role_binding"),
        service |-> Copies(sv, copies) (+) Background("service")] :
          a \in Within(n, Holdings("service_account", focus, populated)),
          r \in Within(n, Holdings("role", focus, populated)),
          b \in Within(n, Holdings("role_binding", focus, populated)),
          sv \in Within(n, Holdings("service", focus, populated))} :
      n \in Holdings("namespace", focus, populated)}

-----------------------------------------------------------------------------
(* bootstrap_kubernetes *)

St == [provider |-> provider, cluster |-> cluster, calls |-> calls,
       failed |-> failed, logs |-> logs]

\* Faulty variant: bootstrap_kubernetes catches what a function raises and
\* goes on with the function that follows.
ApplyAndContinue(r, next) ==
    /\ provider' = r.provider
    /\ cluster' = r.cluster
    /\ calls' = r.calls
    /\ failed' = r.failed
    /\ logs' = r.logs
    /\ error' = r.exc
    /\ pc' = next
    /\ retval' = IF next = "returned" THEN "config" ELSE retval

\* The state after a function that left result r; `next` is where
\* bootstrap_kubernetes goes on unless the function raised.
Apply(r, next) ==
    /\ provider' = r.provider
    /\ cluster' = r.cluster
    /\ calls' = r.calls
    /\ failed' = r.failed
    /\ logs' = r.logs
    /\ error' = r.exc
    /\ pc' = IF r.exc = NoExc THEN next ELSE "raised"
    /\ retval' = IF r.exc = NoExc /\ next = "returned" THEN "config" ELSE retval

\* Faulty variant: the role binding is configured before the role.
following_swapped(step) ==
    CASE step = "_configure_namespace" -> "_configure_autoscaler_service_account"
      [] step = "_configure_autoscaler_service_account" -> "_configure_autoscaler_role_binding"
      [] step = "_configure_autoscaler_role_binding" -> "_configure_autoscaler_role"
      [] step = "_configure_autoscaler_role" -> "_configure_services"
      [] step = "_configure_services" -> "returned"

\* The order of the calls in the body of bootstrap_kubernetes: the function
\* that follows `step`.
following(step) ==
    CASE step = "_configure_namespace" -> "_configure_autoscaler_service_account"
      [] step = "_configure_autoscaler_service_account" -> "_configure_autoscaler_role"
      [] step = "_configure_autoscaler_role" -> "_configure_autoscaler_role_binding"
      [] step = "_configure_autoscaler_role_binding" -> "_configure_services"
      [] step = "_configure_services" -> "returned"

InitBootstrap ==
    /\ \E focus \in Kinds, declared \in BOOLEAN, populated \in BOOLEAN,
          copies \in 1..MaxCopies :
            /\ provider \in ProviderConfigs(focus, declared)
            /\ cluster \in Clusters(focus, populated, copies)
    /\ pc = "bootstrap_kubernetes"
    /\ namespace = ""
    /\ idx = 1
    /\ calls = <<>>
    /\ failed = {}
    /\ logs = <<>>
    /\ error = NoExc
    /\ retval = "none"
    /\ run = 1
    /\ cluster0 = cluster
    /\ provider0 = provider
    /\ outcomes = <<>>

FillIdle ==
    /\ config = EmptyDict
    /\ fpc = "idle"
    /\ ferror = NoExc
    /\ config0 = config

Init == InitBootstrap /\ FillIdle

\* Faulty variant: the use_internal_ips check is dropped.
rejects_nothing(provider_config) == FALSE

\* if not config["provider"]["use_internal_ips"]
rejects_external_ips(provider_config) == ~provider_config.use_internal_ips

\* The first statement of bootstrap_kubernetes: return ValueError(...) hands the
\* exception object to the caller as the return value; nothing is raised.
Bootstrap ==
    /\ pc = "bootstrap_kubernetes"
    /\ IF rejects_external_ips(provider)
       THEN pc' = "returned" /\ retval' = "ValueError"
       ELSE pc' = "_configure_namespace" /\ retval' = retval
    /\ UNCHANGED <<provider, cluster, namespace, idx, calls, failed, logs, error, run,
                   cluster0, provider0, outcomes>>
    /\ UNCHANGED fvars

ConfigureNamespace ==
    /\ pc = "_configure_namespace"
    /\ \E list_ok, create_ok \in BOOLEAN :
          LET r == _configure_namespace(St, list_ok, create_ok) IN
          /\ Apply(r, following(pc))
          /\ namespace' = IF r.exc = NoExc THEN provider.namespace ELSE namespace
    /\ UNCHANGED <<idx, run, cluster0, provider0, outcomes>>
    /\ UNCHANGED fvars

ConfigureServiceAccount ==
    /\ pc = "_configure_autoscaler_service_account"
    /\ \E list_ok, create_ok \in BOOLEAN :
          Apply(_configure_autoscaler_service_account(namespace, St, list_ok, create_ok),
                following(pc))
    /\ UNCHANGED <<namespace, idx, run, cluster0, provider0, outcomes>>
    /\ UNCHANGED fvars

ConfigureRole ==
    /\ pc = "_configure_autoscaler_role"
    /\ \E list_ok, create_ok \in BOOLEAN :
          Apply(_configure_autoscaler_role(namespace, St, list_ok, create_ok),
                following(pc))
    /\ UNCHANGED <<namespace, idx, run, cluster0, provider0, outcomes>>
    /\ UNCHANGED fvars

ConfigureRoleBinding ==
    /\ pc = "_configure_autoscaler_role_binding"
    /\ \E list_ok, create_ok \in BOOLEAN :
          Apply(_configure_autoscaler_role_binding(namespace, St, list_ok, create_ok),
                following(pc))
    /\ UNCHANGED <<namespace, idx, run, cluster0, provider0, outcomes>>
    /\ UNCHANGED fvars

\* _configure_services up to the end of one pass of its loop; when the
\* function returns, bootstrap_kubernetes returns config.
ConfigureServices ==
    /\ pc = "_configure_services"
    /\ LET service_field == "services" IN
       IF service_field \notin DOMAIN provider
       THEN /\ Apply(skip_not_provided(St, service_field), following(pc))
            /\ idx' = idx
       ELSE IF idx > Len(provider[service_field])
       THEN /\ Apply(FallThrough(St), following(pc))
            /\ idx' = idx
       ELSE \E list_ok, write_ok \in BOOLEAN :
              LET r == _configure_services(namespace, St, idx, list_ok, write_ok)
                  last == r.ret \/ idx = Len(provider[service_field])
              IN  /\ Apply(r, IF last THEN following(pc) ELSE pc)
                  /\ idx' = IF r.exc = NoExc /\ ~last THEN idx + 1 ELSE idx
    /\ UNCHANGED <<namespace, run, cluster0, provider0, outcomes>>
    /\ UNCHANGED fvars

\* The caller invokes bootstrap_kubernetes again with the same config object.
Invoke ==
    /\ pc \in {"returned", "raised"}
    /\ run < MaxRuns
    /\ run' = run + 1
    /\ pc' = "bootstrap_kubernetes"
    /\ namespace' = ""
    /\ idx' = 1
    /\ calls' = <<>>
    /\ failed' = {}
    /\ logs' = <<>>
    /\ error' = NoExc
    /\ retval' = "none"
    /\ cluster0' = cluster
    /\ provider0' = provider
    /\ outcomes' = Append(outcomes, IF pc = "raised" THEN "raised" ELSE retval)
    /\ UNCHANGED <<provider, cluster>>
    /\ UNCHANGED fvars

Next ==
    \/ Bootstrap
    \/ ConfigureNamespace
    \/ ConfigureServiceAccount
    \/ ConfigureRole
    \/ ConfigureRoleBinding
    \/ ConfigureServices
    \/ Invoke

Spec == Init /\ [][Next]_vars

-----------------------------------------------------------------------------
(* Resource autodetection.  A quantity is the text str(resource) gives, as *)
(* a sequence of characters: "500m" is <<"5", "0", "0", "m">>.             *)

DigitValue ==
    "0" :> 0 @@ "1" :> 1 @@ "2" :> 2 @@ "3" :> 3 @@ "4" :> 4 @@
    "5" :> 5 @@ "6" :> 6 @@ "7" :> 7 @@ "8" :> 8 @@ "9" :> 9

\* int(text) of a text of decimal digits
RECURSIVE py_int(_)
py_int(text) ==
    IF Len(text) = 0 THEN 0
    ELSE 10 * py_int(SubSeq(text, 1, Len(text) - 1)) + DigitValue[text[Len(text)]]

\* Faulty variant: the division rounds down.
floor_thousandth(n) == n \div 1000

\* math.ceil(n / 1000)
ceil_thousandth(n) == IF n % 1000 = 0 THEN n \div 1000 ELSE n \div 1000 + 1

_parse_resource(resource) ==
    LET resource_str == resource IN
    IF resource_str[Len(resource_str)] = "m"
    THEN ceil_thousandth(py_int(SubSeq(resource_str, 1, Len(resource_str) - 1)))
    ELSE py_int(resource_str)

\* float("inf") and the numbers it is compared with
float_inf == [inf |-> TRUE, v |-> 0]

Number(n) == [inf |-> FALSE, v |-> n]

less_than(a, b) == ~a.inf /\ (b.inf \/ a.v < b.v)

\* min(a, b): the first of the two unless the second is smaller
py_min(a, b) == IF less_than(b, a) THEN b ELSE a

_get_resource(container_resources, resource_name, field_name) ==
    IF /\ field_name \in DOMAIN container_resources
       /\ resource_name \in DOMAIN container_resources[field_name]
    THEN Number(_parse_resource(container_resources[field_name][resource_name]))
    ELSE float_inf

get_resource(container_resources, resource_name) ==
    LET request == _get_resource(container_resources, resource_name, "requests")
        limit == _get_resource(container_resources, resource_name, "limits")
        resource == py_min(request, limit)
    IN  IF resource = float_inf THEN 0 ELSE resource.v

get_autodetected_resources(container_data) ==
    IF "resources" \notin DOMAIN container_data
    THEN [CPU |-> 0, GPU |-> 0]
    ELSE [CPU |-> get_resource(container_data.resources, "cpu"),
          GPU |-> get_resource(container_data.resources, "gpu")]

\* resources.update(autodetected_resources) on the node type's resources,
\* an empty dict when the node type had none.
updated_node_type(node) ==
    LET container_data == node.node_config.spec.containers[1]
        autodetected_resources == get_autodetected_resources(container_data)
        resources == IF "resources" \in DOMAIN node THEN node.resources ELSE EmptyDict
    IN  [k \in DOMAIN node \cup {"resources"} |->
            IF k = "resources" THEN autodetected_resources @@ resources ELSE node[k]]

fillout_resources_kubernetes(cfg) ==
    IF "available_node_types" \notin DOMAIN cfg
    THEN [config |-> cfg, exc |-> Exc("KeyError", "available_node_types")]
    ELSE [config |-> [cfg EXCEPT !.available_node_types =
                         [t \in DOMAIN @ |-> updated_node_type(@[t])]],
          exc |-> NoExc]

-----------------------------------------------------------------------------
(* Inputs of fillout_resources_kubernetes *)

\* Quantities with the number each text denotes: n thousandths when milli.
QuantitySamples ==
    {[text |-> <<"5", "0", "0", "m">>, n |-> 500, milli |-> TRUE],
     [text |-> <<"1", "0", "0", "0", "m">>, n |-> 1000, milli |-> TRUE],
     [text |-> <<"1", "0", "0", "1", "m">>, n |-> 1001, milli |-> TRUE],
     [text |-> <<"1">>, n |-> 1, milli |-> FALSE],
     [text |-> <<"2">>, n |-> 2, milli |-> FALSE],
     [text |-> <<"1", "0">>, n |-> 10, milli |-> FALSE]}

CpuTexts == {q.text : q \in QuantitySamples}

GpuTexts == {<<"1">>, <<"2">>}

\* requests or limits: a dict with cpu and gpu, each optional
ResourceFields ==
    {c @@ g : c \in {EmptyDict} \cup {"cpu" :> t : t \in CpuTexts},
              g \in {EmptyDict} \cup {"gpu" :> t : t \in GpuTexts}}

ContainerResources ==
    {rq @@ lm : rq \in {EmptyDict} \cup {"requests" :> f : f \in ResourceFields},
                lm \in {EmptyDict} \cup {"limits" :> f : f \in ResourceFields}}

Containers == {EmptyDict} \cup {"resources" :> cr : cr \in ContainerResources}

\* The resources entry a node type may already have.
NodeResources ==
    {EmptyDict, "resources" :> EmptyDict,
     "resources" :> [CPU |-> 64, memory |-> 1024]}

NodeType(container, resources) ==
    [node_config |-> [spec |-> [containers |-> <<container>>]]] @@ resources

HeadNodes == {NodeType(c, r) : c \in Containers, r \in NodeResources}

WorkerNodes ==
    {NodeType(EmptyDict, EmptyDict),
     NodeType("resources" :> [requests |-> [cpu |-> <<"2">>],
                              limits |-> [cpu |-> <<"1", "0", "0", "1", "m">>,
                                          gpu |-> <<"1">>]],
              "resources" :> [GPU |-> 8, memory |-> 1024])}

Configs ==
    {EmptyDict}
      \cup {"available_node_types" :> ("head" :> h) : h \in HeadNodes}
      \cup {"available_node_types" :> ("head" :> h @@ "worker" :> w) :
                h \in HeadNodes, w \in WorkerNodes}

BootstrapIdle ==
    /\ provider = Provider(TRUE, WorkNs, PlainEntries(FALSE))
    /\ cluster = [k \in Kinds |-> Background(k)]
    /\ pc = "idle"
    /\ namespace = ""
    /\ idx = 1
    /\ calls = <<>>
    /\ failed = {}
    /\ logs = <<>>
    /\ error = NoExc
    /\ retval = "none"
    /\ run = 1
    /\ cluster0 = cluster
    /\ provider0 = provider
    /\ outcomes = <<>>

InitFill ==
    /\ BootstrapIdle
    /\ config \in Configs
    /\ fpc = "call"
    /\ ferror = NoExc
    /\ config0 = config

FilloutResources ==
    /\ fpc = "call"
    /\ LET r == fillout_resources_kubernetes(config) IN
         /\ config' = r.config
         /\ ferror' = r.exc
         /\ fpc' = IF r.exc = NoExc THEN "returned" ELSE "raised"
    /\ UNCHANGED config0
    /\ UNCHANGED bvars

NextFill == FilloutResources

SpecFill == InitFill /\ [][NextFill]_vars

-----------------------------------------------------------------------------
(* Vocabulary of the properties *)

RbacKinds == {"service_account", "role", "role_binding"}

FieldOf(kind) ==
    CASE kind = "service_account" -> "autoscaler_service_account"
      [] kind = "role" -> "autoscaler_role"
      [] kind = "role_binding" -> "autoscaler_role_binding"
      [] kind = "service" -> "services"

StepOf(kind) == "_configure_" \o FieldOf(kind)

StepAfter(kind) ==
    CASE kind = "service_account" -> "_configure_autoscaler_role"
      [] kind = "role" -> "_configure_autoscaler_role_binding"
      [] kind = "role_binding" -> "_configure_services"
      [] kind = "service" -> "returned"

Declared(kind) == FieldOf(kind) \in DOMAIN provider

\* bootstrap_kubernetes returned config to its caller.
Completed == pc = "returned" /\ retval = "config"

\* The run took the except ApiException branch of _configure_namespace.
Degraded == \E i \in 1..Len(logs) : logs[i].msg = "not checking if exists"

Logged(msg, type, name) ==
    \E i \in 1..Len(logs) : logs[i] = [msg |-> msg, type |-> type, name |-> name]

CallsOf(kind) == {i \in 1..Len(calls) : calls[i].kind = kind}

Writes == {i \in 1..Len(calls) : calls[i].op \in {"create", "patch"}}

InWorkNs(m) == "namespace" \in DOMAIN m /\ m.namespace = provider.namespace

Conflicts(m) == "namespace" \in DOMAIN m /\ m.namespace # provider.namespace

DeclaredServices == IF Declared("service") THEN provider.services ELSE <<>>

Exists(kind, name) == Len_items(cluster, kind, provider.namespace, name) >= 1

-----------------------------------------------------------------------------
(* C1 (as claimed): after a first run that returned config, a second run   *)
(* with the same configuration, whose namespace query is answered, finds   *)
(* the namespace and every declared resource as already existing ("using   *)
(* existing" is logged for each), issues no create and no patch call, and  *)
(* leaves the cluster as it was.                                           *)
C1_SecondRunUsesExisting ==
    (run = 2 /\ outcomes = <<"config">> /\ Completed /\ ~Degraded
        /\ Len_items(cluster0, "namespace", "", provider.namespace) = 1)
    => /\ Logged("using existing", "namespace", provider.namespace)
       /\ \A k \in RbacKinds :
             Declared(k) => Logged("using existing", FieldOf(k),
                                   provider[FieldOf(k)].metadata.name)
       /\ \A i \in 1..Len(DeclaredServices) :
             Logged("using existing", "service", DeclaredServices[i].metadata.name)
       /\ Writes = {}
       /\ cluster = cluster0

(* C2 (as claimed): when bootstrap_kubernetes returns config, the service  *)
(* account, the role, the role binding, every subject of the role binding  *)
(* and every element of the services list carry namespace =                *)
(* provider.namespace.                                                     *)
C2_NamespacesBackfilled ==
    Completed
    => /\ \A k \in RbacKinds : Declared(k) => InWorkNs(provider[FieldOf(k)].metadata)
       /\ Declared("role_binding") =>
             \A j \in 1..Len(provider.autoscaler_role_binding.subjects) :
                 InWorkNs(provider.autoscaler_role_binding.subjects[j])
       /\ \A i \in 1..Len(DeclaredServices) : InWorkNs(DeclaredServices[i].metadata)

(* C3 (as claimed): a run whose configuration declares a nested object     *)
(* (service account, role, role binding, subject, service at any position) *)
(* with a namespace other than provider.namespace does not return config,  *)
(* and no call is issued for the resource that carries the conflict.       *)
C3_ConflictFails ==
    (pc # "idle" /\ "namespace" \in DOMAIN provider /\ provider.use_internal_ips)
    => /\ \A k \in RbacKinds :
             (Declared(k) /\ Conflicts(provider[FieldOf(k)].metadata))
                 => ~Completed /\ CallsOf(k) = {}
       /\ Declared("role_binding") =>
             \A j \in 1..Len(provider.autoscaler_role_binding.subjects) :
                 Conflicts(provider.autoscaler_role_binding.subjects[j])
                     => ~Completed /\ CallsOf("role_binding") = {}
       /\ \A i \in 1..Len(DeclaredServices) :
             Conflicts(DeclaredServices[i].metadata)
                 => /\ ~Completed
                    /\ \A c \in CallsOf("service") :
                          calls[c].name # DeclaredServices[i].metadata.name

(* C4: when use_internal_ips is false the run issues no collaborator call, *)
(* the cluster stays as it was and the configuration is not changed (no    *)
(* namespace is back-filled).                                              *)
C4_ExternalIpNoCalls ==
    (pc # "idle" /\ ~provider0.use_internal_ips)
    => calls = <<>> /\ cluster = cluster0 /\ provider = provider0

C4_Witness ==
    /\ pc = "returned"
    /\ ~provider.use_internal_ips
    /\ Declared("service_account")
    /\ "namespace" \notin DOMAIN provider.autoscaler_service_account.metadata
    /\ Declared("service")

(* C5 (as claimed): when use_internal_ips is false the run ends with an    *)
(* exception raised to the caller (ValueError), not with a return.         *)
C5_ExternalIpRaises ==
    (~provider0.use_internal_ips /\ pc \in {"returned", "raised"})
    => pc = "raised" /\ error.type = "ValueError"

\* One pass of the services loop, from the calls it adds to `calls`.
C6_Pass ==
    (pc = "_configure_services" /\ idx <= Len(DeclaredServices))
    => LET svc == DeclaredServices[idx]
           name == svc.metadata.name
           ns == provider.namespace
           desired == [metadata |-> [name |-> name, namespace |-> ns], spec |-> svc.spec]
           new == SubSeq(calls', Len(calls) + 1, Len(calls'))
           found == Selected(cluster, "service", ns, name)
           answered_one ==
               /\ Len(new) >= 1
               /\ new[1] = [op |-> "list", kind |-> "service", namespace |-> ns,
                            name |-> name]
               /\ ~(Len(new) = 1 /\ error'.type = "ApiException")
               /\ Len_items(cluster, "service", ns, name) = 1
       IN  answered_one =>
             IF found = {desired}
             THEN Len(new) = 1
             ELSE /\ Len(new) = 2
                  /\ new[2] = [op |-> "patch", kind |-> "service", namespace |-> ns,
                               name |-> name, body |-> desired]

(* C6: in a pass of the services loop whose existence query is answered    *)
(* with exactly one service: if the declared service (with the working     *)
(* namespace) equals the existing one, no further call is issued; if they  *)
(* differ, exactly one patch call follows, carrying the declared service   *)
(* under its (namespace, name), and no create call.                        *)
C6_ServiceDiffing == [][C6_Pass]_vars

C6_Witness ==
    /\ Completed
    /\ \E i \in 1..Len(calls) : calls[i].op = "patch" /\ calls[i].name = SvcName(2)
    /\ \E i \in 1..Len(calls) : calls[i].op = "create" /\ calls[i].name = SvcName(1)

\* No call is ever issued for a kind the configuration omits.
C7_NoCalls == \A k \in RbacKinds \cup {"service"} : ~Declared(k) => CallsOf(k) = {}

\* The declared kinds are queried in a run that returns config.
C7_OthersReconciled ==
    Completed
    => /\ \A k \in RbacKinds : Declared(k) => CallsOf(k) # {}
       /\ Len(DeclaredServices) >= 1 => CallsOf("service") # {}

\* The step of an omitted kind only hands over to the next step.
C7_Skip ==
    \A k \in RbacKinds \cup {"service"} :
        (pc = StepOf(k) /\ ~Declared(k))
        => /\ pc' = StepAfter(k)
           /\ error' = NoExc
           /\ calls' = calls
           /\ cluster' = cluster
           /\ provider' = provider

(* C7: when the configuration omits an optional kind, the step of that     *)
(* kind issues no call, raises nothing, changes neither the cluster nor    *)
(* the configuration and hands over to the next step; a run that returns   *)
(* config has queried every declared RBAC kind and the first declared      *)
(* service, whichever kinds are omitted.                                   *)
C7_OptionalOmission == [](C7_NoCalls /\ C7_OthersReconciled) /\ [][C7_Skip]_vars

C7_Witness ==
    /\ Completed
    /\ ~Declared("role")
    /\ Declared("service_account") /\ Declared("role_binding") /\ Declared("service")
    /\ CallsOf("service_account") # {} /\ CallsOf("role_binding") # {}
    /\ CallsOf("service") # {}

(* C8 (as claimed): when bootstrap_kubernetes returns config and the       *)
(* namespace query was answered, the working namespace exists and every    *)
(* declared resource (service account, role, role binding, every service   *)
(* of the list) exists under its (namespace, name).                        *)
C8_Converged ==
    (Completed /\ ~Degraded)
    => /\ Len_items(cluster, "namespace", "", provider.namespace) >= 1
       /\ \A k \in RbacKinds :
             Declared(k) => Exists(k, provider[FieldOf(k)].metadata.name)
       /\ \A i \in 1..Len(DeclaredServices) :
             Exists("service", DeclaredServices[i].metadata.name)

(* C9 (as claimed): in a run that returns config, exactly one existence    *)
(* query is issued for every element of the services list, in list order.  *)
C9_EveryServiceQueried ==
    Completed
    => LET IsServiceList(c) == c.op = "list" /\ c.kind = "service"
           queries == SelectSeq(calls, IsServiceList)
       IN  /\ Len(queries) = Len(DeclaredServices)
           /\ \A i \in 1..Len(queries) :
                 queries[i].name = DeclaredServices[i].metadata.name

-----------------------------------------------------------------------------
(* The amounts autodetection is to give, from the numbers the quantities   *)
(* denote.                                                                 *)
Ceiling(n, d) == CHOOSE k \in 0..n : k * d >= n /\ (k = 0 \/ (k - 1) * d < n)

Parse(text) ==
    LET q == CHOOSE q \in QuantitySamples : q.text = text
    IN  IF q.milli THEN Ceiling(q.n, 1000) ELSE q.n

Least(S) == CHOOSE m \in S : \A x \in S : m <= x

Present(container, r) ==
    IF "resources" \notin DOMAIN container THEN {}
    ELSE {container.resources[f][r] :
            f \in {g \in DOMAIN container.resources : r \in DOMAIN container.resources[g]}}

Detected(container, r) ==
    IF Present(container, r) = {} THEN 0
    ELSE Least({Parse(v) : v \in Present(container, r)})

(* C10: for the first container of every node type and r in {cpu, gpu},    *)
(* the amount stored under "CPU" / "GPU" is 0 when requests.r and limits.r *)
(* are both absent, and otherwise the least of parse(v) over the present   *)
(* ones, where parse("<n>m") is the ceiling of n / 1000 and parse of a     *)
(* bare number is that number.                                             *)
C10_Autodetected ==
    fpc = "returned"
    => \A t \in DOMAIN config.available_node_types :
         LET container == config0.available_node_types[t].node_config.spec.containers[1]
             resources == config.available_node_types[t].resources
         IN  /\ resources["CPU"] = Detected(container, "cpu")
             /\ resources["GPU"] = Detected(container, "gpu")

C10_Witness ==
    /\ fpc = "returned"
    /\ "available_node_types" \in DOMAIN config
    /\ LET container == config0.available_node_types["head"].node_config.spec.containers[1]
           resources == config.available_node_types["head"].resources
       IN  /\ "resources" \in DOMAIN container
           /\ container.resources =
                 [requests |-> [cpu |-> <<"5", "0", "0", "m">>],
                  limits |-> [cpu |-> <<"1">>, gpu |-> <<"2">>]]
           /\ resources["CPU"] = 1
           /\ resources["GPU"] = 2

-----------------------------------------------------------------------------
(* The identities (kind, namespace, name) the cluster holds.               *)
Identity(kind, o) ==
    <<kind, IF kind = "namespace" THEN "" ELSE o.metadata.namespace, o.metadata.name>>

Identities(cl) == UNION {{Identity(k, o) : o \in BagToSet(cl[k])} : k \in Kinds}

C11_Ops ==
    \A i \in 1..Len(calls) :
        /\ calls[i].op \in {"list", "create", "patch"}
        /\ calls[i].op = "patch" => calls[i].kind = "service"

C11_Step ==
    /\ Identities(cluster) \subseteq Identities(cluster')
    /\ \A k \in Kinds \ {"service"} :
          \A o \in BagToSet(cluster[k]) :
              /\ BagIn(o, cluster'[k])
              /\ CopiesIn(o, cluster'[k]) >= CopiesIn(o, cluster[k])

(* C11: in every run, aborted ones included, every collaborator call is a  *)
(* list, a create or a patch, and a patch only of a service; no step takes *)
(* an identity (kind, namespace, name) out of the cluster; and every       *)
(* namespace, service account, role and role binding the cluster holds     *)
(* before a step is held unaltered after it.                               *)
C11_NoDeletion == [](C11_Ops) /\ [][C11_Step]_vars

C11_Witness ==
    /\ pc = "raised"
    /\ cluster # cluster0
    /\ \E i \in 1..Len(calls) : calls[i].op = "patch" /\ i \notin failed
    /\ \E o \in BagToSet(cluster0["role"]) : o.spec # Desired

(* C12: in a run whose provider has use_internal_ips true and no namespace *)
(* field, no collaborator call is ever issued, the cluster and the         *)
(* configuration stay as they were, the run never returns, and it ends     *)
(* raising ValueError out of _configure_namespace.                         *)
C12_MissingNamespace ==
    (pc # "idle" /\ provider0.use_internal_ips /\ "namespace" \notin DOMAIN provider0)
    => /\ calls = <<>>
       /\ cluster = cluster0
       /\ provider = provider0
       /\ pc \in {"bootstrap_kubernetes", "_configure_namespace", "raised"}
       /\ pc = "raised" => error.type = "ValueError"

C12_Witness ==
    /\ pc = "raised"
    /\ provider0.use_internal_ips
    /\ "namespace" \notin DOMAIN provider0
    /\ error.type = "ValueError"

\* list_namespace, the existence query of _configure_namespace.
NamespaceQuery(c) == c.op = "list" /\ c.kind = "namespace"

\* The calls of the current run, other than the namespace existence query,
\* that raised ApiException.
FatalFailures == {i \in failed : ~NamespaceQuery(calls[i])}

(* C13: once a call other than the namespace existence query has raised    *)
(* ApiException (create_namespace, or a list, create or patch of a service *)
(* account, role, role binding or service), the run has ended raising      *)
(* ApiException without returning, that call is the last call of the run,  *)
(* and the body of every create and patch that succeeded earlier in the    *)
(* run is held by the cluster.                                             *)
C13_FatalAbort ==
    FatalFailures # {}
    => /\ pc = "raised"
       /\ error.type = "ApiException"
       /\ retval = "none"
       /\ FatalFailures = {Len(calls)}
       /\ \A i \in Writes \ failed : BagIn(calls[i].body, cluster[calls[i].kind])

C13_Witness ==
    /\ pc = "raised"
    /\ Len(calls) \in failed
    /\ calls[Len(calls)].op = "patch"
    /\ \E i \in Writes \ failed : calls[i].op = "create"
    /\ cluster # cluster0

\* The namespace existence query of the current run raised ApiException.
NamespaceQueryFailed == \E i \in failed : NamespaceQuery(calls[i])

C14_State ==
    NamespaceQueryFailed
    => /\ \A i \in CallsOf("namespace") : calls[i].op # "create"
       /\ namespace = provider.namespace
       /\ \A i \in 1..Len(calls) :
             calls[i].kind # "namespace" => calls[i].namespace = provider.namespace

C14_Step ==
    (pc = "_configure_namespace" /\ NamespaceQueryFailed')
    => /\ pc' = "_configure_autoscaler_service_account"
       /\ error' = NoExc
       /\ namespace' = provider.namespace
       /\ calls' = <<ListCall("namespace", "", provider.namespace)>>
       /\ cluster' = cluster
       /\ provider' = provider

(* C14: when list_namespace raises ApiException, _configure_namespace does *)
(* not raise: it issues no create_namespace, returns the configured        *)
(* namespace and leaves cluster and configuration alone; bootstrap goes on *)
(* to _configure_autoscaler_service_account, and every later call of the   *)
(* run is made in that namespace.                                          *)
C14_DegradedCheck == [](C14_State) /\ [][C14_Step]_vars

C14_Witness ==
    /\ Completed
    /\ NamespaceQueryFailed
    /\ \E i \in Writes \ failed : calls[i].kind = "service_account"
    /\ \E i \in 1..Len(calls) : calls[i].kind = "service"

\* The step issues an existence query that is answered with more than one
\* match.
AnsweredWithMany ==
    /\ Len(calls') > Len(calls)
    /\ LET k == Len(calls) + 1
           c == calls'[k]
       IN  /\ c.op = "list"
           /\ k \notin failed'
           /\ Len_items(cluster, c.kind, c.namespace, c.name) > 1

C15_Step ==
    AnsweredWithMany
    => /\ pc' = "raised"
       /\ error'.type = "AssertionError"
       /\ Len(calls') = Len(calls) + 1
       /\ cluster' = cluster
       /\ logs' = logs

C15_State ==
    (pc = "raised" /\ error.type = "AssertionError")
    => /\ calls[Len(calls)].op = "list"
       /\ retval = "none"

(* C15: a step whose existence query (of any of the five kinds) is         *)
(* answered with more than one match ends the run raising AssertionError:  *)
(* the query is the last call of the run, no create or patch follows it,   *)
(* the cluster is untouched and none of the matches is logged as used or   *)
(* updated.                                                                *)
C15_InvariantViolationFatal == [](C15_State) /\ [][C15_Step]_vars

C15_Witness ==
    /\ pc = "raised"
    /\ error.type = "AssertionError"
    /\ calls[Len(calls)].kind = "service"
    /\ Len(calls) > 2
    /\ Len_items(cluster, "service", provider.namespace, calls[Len(calls)].name) > 1

\* The step issues the existence query of `kind`, answered with exactly one
\* match.
AnsweredWithOne(kind) ==
    /\ Len(calls') > Len(calls)
    /\ LET k == Len(calls) + 1
           c == calls'[k]
       IN  /\ c.op = "list"
           /\ c.kind = kind
           /\ k \notin failed'
           /\ Len_items(cluster, c.kind, c.namespace, c.name) = 1

C16_Step ==
    \A kind \in RbacKinds :
        AnsweredWithOne(kind)
        => /\ Len(calls') = Len(calls) + 1
           /\ cluster' = cluster
           /\ error' = NoExc
           /\ pc' = StepAfter(kind)

(* C16: when the existence query of a service account, role or role        *)
(* binding is answered with exactly one match, the step issues no other    *)
(* call (no create, no patch), leaves the cluster as it is whatever the    *)
(* existing object holds, and bootstrap goes on to the next function.      *)
C16_PresenceSuffices == [][C16_Step]_vars

C16_Witness ==
    /\ pc = "_configure_services"
    /\ Declared("role_binding")
    /\ calls[Len(calls)] = ListCall("role_binding", provider.namespace,
                                    provider.autoscaler_role_binding.metadata.name)
    /\ Len(calls) \notin failed
    /\ \E o \in BagToSet(cluster["role_binding"]) :
          /\ o.metadata.name = provider.autoscaler_role_binding.metadata.name
          /\ o.metadata.namespace = provider.namespace
          /\ o.spec # provider.autoscaler_role_binding.spec
    /\ cluster = cluster0

\* The place of a kind in the order in which bootstrap reconciles.
Rank(kind) ==
    CASE kind = "namespace" -> 1
      [] kind = "service_account" -> 2
      [] kind = "role" -> 3
      [] kind = "role_binding" -> 4
      [] kind = "service" -> 5

C17_Order ==
    /\ \A i, j \in 1..Len(calls) :
          i < j => Rank(calls[i].kind) <= Rank(calls[j].kind)
    /\ \A i \in Writes :
          /\ i > 1
          /\ i - 1 \notin failed
          /\ calls[i - 1] = ListCall(calls[i].kind, calls[i].namespace, calls[i].name)

C17_Step ==
    \A j \in (Len(calls) + 1)..Len(calls') :
        calls'[j].op = "create"
        => Len_items(cluster, calls'[j].kind, calls'[j].namespace, calls'[j].name) = 0

(* C17: the calls of a run come in the order namespace, service account,   *)
(* role, role binding, services; every create and every patch directly     *)
(* follows an answered existence query of the same identity; and a create  *)
(* is issued only when the cluster held no object of that identity at the  *)
(* query.                                                                  *)
C17_StepOrder == [](C17_Order) /\ [][C17_Step]_vars

C17_Witness ==
    /\ Completed
    /\ \A k \in Kinds : \E i \in CallsOf(k) : calls[i].op = "list"
    /\ \E i \in Writes : calls[i].op = "create"
    /\ \E i \in Writes : calls[i].op = "patch"

\* The cluster holds at most one object of every identity.
Unique(cl) ==
    \A k \in Kinds :
        \A o \in BagToSet(cl[k]) :
            /\ CopiesIn(o, cl[k]) = 1
            /\ \A other \in BagToSet(cl[k]) :
                  Identity(k, other) = Identity(k, o) => other = o

(* C18: no step of any run, completed, aborted or degraded, first or       *)
(* repeated, takes a cluster that holds at most one object per identity    *)
(* (kind, namespace, name) to one that holds two of some identity.         *)
C18_UniquenessPreserved == [][Unique(cluster) => Unique(cluster')]_vars

C18_Witness ==
    /\ run = 2
    /\ outcomes = <<"raised">>
    /\ Completed
    /\ NamespaceQueryFailed
    /\ Unique(cluster)
    /\ \E i \in Writes \ failed : calls[i].op = "create"
    /\ \E i \in Writes \ failed : calls[i].op = "patch"

-----------------------------------------------------------------------------
\* fillout_resources_kubernetes is over: it returned or raised.
FillOver == fpc \in {"returned", "raised"}

NoNodeTypes == "available_node_types" \notin DOMAIN config0

\* What the claim gives for a node type that was `before`.
C19_NodeFilled(before, after) ==
    LET container == before.node_config.spec.containers[1]
        kept == IF "resources" \in DOMAIN before THEN before.resources ELSE EmptyDict
    IN  /\ DOMAIN after = DOMAIN before \cup {"resources"}
        /\ after.node_config = before.node_config
        /\ after.resources["CPU"] = Detected(container, "cpu")
        /\ after.resources["GPU"] = Detected(container, "gpu")
        /\ \A k \in DOMAIN kept \ {"CPU", "GPU"} :
              k \in DOMAIN after.resources /\ after.resources[k] = kept[k]

(* C19 (as claimed): fillout_resources_kubernetes always returns; given a  *)
(* config without available_node_types it leaves the config as it was;    *)
(* given one with available_node_types it gives every node type resources *)
(* whose "CPU" and "GPU" are the autodetected amounts, keeps every other   *)
(* key of the resources and leaves node_config as it was.                  *)
C19_FilloutResources ==
    FillOver
    => /\ fpc = "returned"
       /\ ferror = NoExc
       /\ IF NoNodeTypes
          THEN config = config0
          ELSE /\ DOMAIN config = DOMAIN config0
               /\ DOMAIN config.available_node_types = DOMAIN config0.available_node_types
               /\ \A t \in DOMAIN config0.available_node_types :
                     C19_NodeFilled(config0.available_node_types[t],
                                    config.available_node_types[t])

\* The part of C19 about a config that has available_node_types.
C19_WhenPresent == (FillOver /\ ~NoNodeTypes) => C19_FilloutResources

\* What the code does when available_node_types is absent.
C19_AbsentRaises ==
    (FillOver /\ NoNodeTypes)
    => fpc = "raised" /\ ferror = Exc("KeyError", "available_node_types")
       /\ config = config0

====
